---- MODULE Spec2Model ----
(***************************************************************************)
(* TaskGenie backend: the task service (create / get / list / update /     *)
(* delete over the tasks table), the request validation of the schema      *)
(* layer, and the rows owned by a task.                                     *)
(*                                                                          *)
(* Conventions of the model.                                                *)
(*   - A nullable value is an option: None is <<>> and Some(v) is <<v>>.    *)
(*   - A title is represented by its length in characters.                 *)
(*   - A timestamp is a point on one time line, an integer; `now` is the   *)
(*     value CURRENT_TIMESTAMP has, which stays the same for calls made    *)
(*     within one second.                                                   *)
(*   - A request body is a function from the field names present in the    *)
(*     JSON document to their raw values, so that a field that is absent    *)
(*     differs from a field that is explicitly null.                        *)
(*   - Each service call is one request: it runs in its own session and its *)
(*     writes are committed when it returns normally. The specifications of *)
(*     the task service take a request in one step; the transaction         *)
(*     specification takes it await by await, on two sessions.              *)
(*   - `boot` is the state of database.py's module globals, of the          *)
(*     database the process was started on, and of the operator's last db   *)
(*     command.                                                             *)
(***************************************************************************)
EXTENDS Integers, Sequences, FiniteSets, TLC

VARIABLES
    tasks,          \* the tasks table: task id -> row
    attachments,    \* the attachments table: set of rows [id, task_id]
    notifications,  \* the notifications table: set of rows [id, task_id]
    deleted,        \* ids of the tasks deleted so far
    now,            \* CURRENT_TIMESTAMP
    last,           \* the last service call: its input, outcome and response
    sessions,       \* the requests in flight: session id -> get_db's state
    boot            \* engine / async_session_maker and the startup migration

vars == <<tasks, attachments, notifications, deleted, now, last, sessions, boot>>

\* What the one-step service calls leave alone.
txvars == <<sessions, boot>>

----------------------------------------------------------------------------
\* Bounds of the model.

MaxIds == 2         \* task ids the service can assign
MaxTime == 2        \* seconds the clock runs
MaxChildren == 2    \* rows of each child table
MaxEta == 2         \* timestamps an eta or a due bound can take
MaxFault == 2       \* statements of a revision at which a fault is injected

\* Program constants.

MinTitleLength == 1
MaxTitleLength == 255
DefaultLimit == 50

----------------------------------------------------------------------------
\* Options.

None == <<>>
Some(v) == <<v>>
IsNone(o) == o = <<>>
Val(o) == o[1]

EmptyBody == [f \in {} |-> None]

----------------------------------------------------------------------------
\* Schema layer: enumerations and request validation.

TaskStatus == {"pending", "in_progress", "completed"}
TaskPriority == {"low", "medium", "high", "critical"}

TaskFields == {"title", "description", "status", "priority", "eta", "tags", "metadata"}

Ids == 1 .. MaxIds
NoId == 0

\* Mutant: the title's min_length is not checked.
TitleLengthOk_NoMin(n) == n <= MaxTitleLength

\* Length constraint of the title field (min_length=1, max_length=255).
TitleLengthOk(n) == MinTitleLength <= n /\ n <= MaxTitleLength

\* TaskCreate: title is a required string of 1..255 characters; status and
\* priority, when supplied, are members of their enumerations (null is not);
\* the other fields are nullable.
TaskCreateValid(body) ==
    /\ "title" \in DOMAIN body
    /\ ~IsNone(body["title"])
    /\ TitleLengthOk(Val(body["title"]))
    /\ "status" \in DOMAIN body =>
          ~IsNone(body["status"]) /\ Val(body["status"]) \in TaskStatus
    /\ "priority" \in DOMAIN body =>
          ~IsNone(body["priority"]) /\ Val(body["priority"]) \in TaskPriority

\* Mutant: TaskUpdate without its validator.
validate_title_not_null_Off(body) == TRUE

\* TaskUpdate.validate_title_not_null: a title that is present and null is
\* rejected before the fields are coerced.
validate_title_not_null(body) ==
    ~("title" \in DOMAIN body /\ IsNone(body["title"]))

\* Mutant: a TaskUpdate whose status and priority are not nullable.
TaskUpdateValid_NoNulls(body) ==
    /\ validate_title_not_null(body)
    /\ ("title" \in DOMAIN body /\ ~IsNone(body["title"])) =>
          TitleLengthOk(Val(body["title"]))
    /\ "status" \in DOMAIN body =>
          ~IsNone(body["status"]) /\ Val(body["status"]) \in TaskStatus
    /\ "priority" \in DOMAIN body =>
          ~IsNone(body["priority"]) /\ Val(body["priority"]) \in TaskPriority

\* TaskUpdate: every field optional; a title that is supplied has 1..255
\* characters; status and priority are null or members of their enumerations.
TaskUpdateValid(body) ==
    /\ validate_title_not_null(body)
    /\ ("title" \in DOMAIN body /\ ~IsNone(body["title"])) =>
          TitleLengthOk(Val(body["title"]))
    /\ ("status" \in DOMAIN body /\ ~IsNone(body["status"])) =>
          Val(body["status"]) \in TaskStatus
    /\ ("priority" \in DOMAIN body /\ ~IsNone(body["priority"])) =>
          Val(body["priority"]) \in TaskPriority

\* The value of a field of a validated body, or the field's default.
FieldOr(body, f, default) == IF f \in DOMAIN body THEN body[f] ELSE default

----------------------------------------------------------------------------
\* Outcomes of a call.

Ok == [kind |-> "ok", http |-> 200, task_id |-> NoId, code |-> "", error |-> ""]
Created == [Ok EXCEPT !.http = 201]
NoContent == [Ok EXCEPT !.http = 204]
ValidationError ==
    [kind |-> "validation_error", http |-> 422, task_id |-> NoId,
     code |-> "", error |-> "validation"]
IntegrityError ==
    [kind |-> "integrity_error", http |-> 500, task_id |-> NoId,
     code |-> "", error |-> "integrity"]

\* Mutant: a not-found error that carries neither the id nor the code.
TaskNotFoundError_Generic(task_id) ==
    [kind |-> "task_not_found", http |-> 404, task_id |-> NoId,
     code |-> "NOT_FOUND", error |-> "Task not found"]

\* TaskNotFoundError(task_id) as task_not_found_handler answers it.
TaskNotFoundError(task_id) ==
    [kind |-> "task_not_found", http |-> 404, task_id |-> task_id,
     code |-> "TASK_NOT_FOUND", error |-> "Task not found"]

----------------------------------------------------------------------------
\* Service layer.

\* _task_to_response_dict and TaskResponse: the row's columns and an empty
\* attachments list.
task_to_response_dict(id, row) ==
    [id |-> id,
     title |-> row.title,
     description |-> row.description,
     status |-> row.status,
     priority |-> row.priority,
     eta |-> row.eta,
     created_at |-> row.created_at,
     updated_at |-> row.updated_at,
     tags |-> row.tags,
     metadata |-> row.metadata,
     attachments |-> <<>>]

\* Mutant: a row whose priority defaults to low.
NewTaskRow_LowDefault(body, t) ==
    [title |-> body["title"],
     description |-> IF "description" \in DOMAIN body THEN body["description"] ELSE None,
     status |-> IF "status" \in DOMAIN body THEN body["status"] ELSE Some("pending"),
     priority |-> IF "priority" \in DOMAIN body THEN body["priority"] ELSE Some("low"),
     eta |-> IF "eta" \in DOMAIN body THEN body["eta"] ELSE None,
     created_at |-> t,
     updated_at |-> t,
     tags |-> IF "tags" \in DOMAIN body THEN body["tags"] ELSE None,
     metadata |-> IF "metadata" \in DOMAIN body THEN body["metadata"] ELSE None]

\* The row create_task inserts: the body's fields with the schema defaults,
\* created_at and updated_at from the server default CURRENT_TIMESTAMP.
NewTaskRow(body, t) ==
    [title |-> body["title"],
     description |-> FieldOr(body, "description", None),
     status |-> FieldOr(body, "status", Some("pending")),
     priority |-> FieldOr(body, "priority", Some("medium")),
     eta |-> FieldOr(body, "eta", None),
     created_at |-> t,
     updated_at |-> t,
     tags |-> FieldOr(body, "tags", None),
     metadata |-> FieldOr(body, "metadata", None)]

\* Mutant: the tags column is not stored.
Put_DropsTags(table, id, row) ==
    [i \in DOMAIN table \cup {id} |->
        IF i = id THEN [row EXCEPT !.tags = None] ELSE table[i]]

\* The tasks table with row `row` stored under `id`.
Put(table, id, row) ==
    [i \in DOMAIN table \cup {id} |-> IF i = id THEN row ELSE table[i]]

\* The tasks table without `id`.
Drop(table, id) == [i \in DOMAIN table \ {id} |-> table[i]]

\* select(Task).where(Task.id == task_id).scalar_one_or_none()
Lookup(id) == IF id \in DOMAIN tasks THEN Some(tasks[id]) ELSE None

\* The rows of a child table that task `id` owns.
OwnedBy(rows, id) == {r \in rows : r.task_id = id}

\* The record of a call: its input, its outcome and response, and what held
\* when it was made: the addressed row (before), whether the addressed id had
\* been deleted (wasDeleted), and how many attachments and notifications the
\* addressed task owned (owned).
Call(op, id, body, outcome, before, result) ==
    [op |-> op, id |-> id, body |-> body, outcome |-> outcome,
     before |-> before, result |-> result, wasDeleted |-> id \in deleted,
     owned |-> <<Cardinality(OwnedBy(attachments, id)),
                 Cardinality(OwnedBy(notifications, id))>>]

\* Mutant: an id no stored task has, which a deleted task may have had.
FreshIds_Reuse == Ids \ DOMAIN tasks

\* uuid.uuid4(): an id no task has or had.
FreshIds == Ids \ (DOMAIN tasks \cup deleted)

\* POST /tasks
create_task(body) ==
    IF ~TaskCreateValid(body)
    THEN /\ last' = Call("create", NoId, body, ValidationError, None, None)
         /\ UNCHANGED <<tasks, attachments, notifications, deleted, now>>
    ELSE \E id \in FreshIds :
           LET row == NewTaskRow(body, now) IN
           /\ tasks' = Put(tasks, id, row)
           /\ last' = Call("create", id, body, Created, None,
                           Some(task_to_response_dict(id, row)))
           /\ UNCHANGED <<attachments, notifications, deleted, now>>

\* GET /tasks/{task_id}
get_task(id) ==
    /\ IF id \notin DOMAIN tasks
       THEN last' = Call("get", id, EmptyBody, TaskNotFoundError(id), None, None)
       ELSE last' = Call("get", id, EmptyBody, Ok, Lookup(id),
                         Some(task_to_response_dict(id, tasks[id])))
    /\ UNCHANGED <<tasks, attachments, notifications, deleted, now>>

\* Mutant: every field is written only when the document holds a non-null
\* value for it.
ApplyUpdate_SkipNulls(row, body) ==
    LET set(f) == f \in DOMAIN body /\ ~IsNone(body[f]) IN
    [row EXCEPT
       !.status = IF set("status") THEN body["status"] ELSE @,
       !.priority = IF set("priority") THEN body["priority"] ELSE @,
       !.title = IF set("title") THEN body["title"] ELSE @,
       !.description = IF set("description") THEN body["description"] ELSE @,
       !.eta = IF set("eta") THEN body["eta"] ELSE @,
       !.tags = IF set("tags") THEN body["tags"] ELSE @,
       !.metadata = IF set("metadata") THEN body["metadata"] ELSE @]

\* The assignments of update_task: status and priority are written when the
\* document holds a non-null value for them, the other fields when the
\* document holds them at all.
ApplyUpdate(row, body) ==
    [row EXCEPT
       !.status = IF "status" \in DOMAIN body /\ ~IsNone(body["status"])
                  THEN body["status"] ELSE @,
       !.priority = IF "priority" \in DOMAIN body /\ ~IsNone(body["priority"])
                    THEN body["priority"] ELSE @,
       !.title = FieldOr(body, "title", @),
       !.description = FieldOr(body, "description", @),
       !.eta = FieldOr(body, "eta", @),
       !.tags = FieldOr(body, "tags", @),
       !.metadata = FieldOr(body, "metadata", @)]

\* Mutant: every flush emits an UPDATE.
FlushRow_Always(row, new, t) == [new EXCEPT !.updated_at = t]

\* Mutant: updated_at has no onupdate.
FlushRow_NoStamp(row, new, t) == new

\* session.flush() of a loaded row: an UPDATE is emitted only when a column
\* has a net change, and the UPDATE sets updated_at (onupdate) to
\* CURRENT_TIMESTAMP.
FlushRow(row, new, t) ==
    IF new = row THEN row ELSE [new EXCEPT !.updated_at = t]

\* Mutant: the task is looked up before the document is validated.
update_task_LookupFirst(id, body) ==
    IF id \notin DOMAIN tasks
    THEN /\ last' = Call("update", id, body, TaskNotFoundError(id), None, None)
         /\ UNCHANGED <<tasks, attachments, notifications, deleted, now>>
    ELSE IF ~TaskUpdateValid(body)
    THEN /\ last' = Call("update", id, body, ValidationError, Lookup(id), None)
         /\ UNCHANGED <<tasks, attachments, notifications, deleted, now>>
    ELSE LET row == FlushRow(tasks[id], ApplyUpdate(tasks[id], body), now) IN
         /\ tasks' = Put(tasks, id, row)
         /\ last' = Call("update", id, body, Ok, Lookup(id),
                         Some(task_to_response_dict(id, row)))
         /\ UNCHANGED <<attachments, notifications, deleted, now>>

\* PATCH /tasks/{task_id}
update_task(id, body) ==
    IF ~TaskUpdateValid(body)
    THEN /\ last' = Call("update", id, body, ValidationError, Lookup(id), None)
         /\ UNCHANGED <<tasks, attachments, notifications, deleted, now>>
    ELSE IF id \notin DOMAIN tasks
    THEN /\ last' = Call("update", id, body, TaskNotFoundError(id), None, None)
         /\ UNCHANGED <<tasks, attachments, notifications, deleted, now>>
    ELSE LET new == ApplyUpdate(tasks[id], body) IN
         IF IsNone(new.title)
         THEN \* NOT NULL constraint of tasks.title: the flush fails and the
              \* request's transaction is rolled back.
              /\ last' = Call("update", id, body, IntegrityError, Lookup(id), None)
              /\ UNCHANGED <<tasks, attachments, notifications, deleted, now>>
         ELSE LET row == FlushRow(tasks[id], new, now) IN
              /\ tasks' = Put(tasks, id, row)
              /\ last' = Call("update", id, body, Ok, Lookup(id),
                              Some(task_to_response_dict(id, row)))
              /\ UNCHANGED <<attachments, notifications, deleted, now>>

\* The rows of the child tables left after the rows owned by task `id` went
\* with it (cascade="all, delete-orphan" on the relationships, ON DELETE
\* CASCADE on the foreign keys).
CascadeAttachments(rows, id) == rows \ OwnedBy(rows, id)

\* Mutant: notifications are not deleted with their task.
CascadeNotifications_Off(rows, id) == rows

CascadeNotifications(rows, id) == rows \ OwnedBy(rows, id)

\* DELETE /tasks/{task_id}
delete_task(id) ==
    IF id \notin DOMAIN tasks
    THEN /\ last' = Call("delete", id, EmptyBody, TaskNotFoundError(id), None, None)
         /\ UNCHANGED <<tasks, attachments, notifications, deleted, now>>
    ELSE /\ tasks' = Drop(tasks, id)
         /\ attachments' = CascadeAttachments(attachments, id)
         /\ notifications' = CascadeNotifications(notifications, id)
         /\ deleted' = deleted \cup {id}
         /\ last' = Call("delete", id, EmptyBody, NoContent, Lookup(id), None)
         /\ UNCHANGED now

\* A row of attachments or notifications owned by task `task_id` is inserted.
\* The foreign key to tasks.id is enforced (PRAGMA foreign_keys=ON on every
\* session), so the insert fails when the task does not exist.
add_attachment(id, task_id) ==
    IF task_id \notin DOMAIN tasks
    THEN /\ last' = Call("attach", task_id, EmptyBody, IntegrityError, None, None)
         /\ UNCHANGED <<tasks, attachments, notifications, deleted, now>>
    ELSE /\ attachments' = attachments \cup {[id |-> id, task_id |-> task_id]}
         /\ last' = Call("attach", task_id, EmptyBody, Created, Lookup(task_id), None)
         /\ UNCHANGED <<tasks, notifications, deleted, now>>

add_notification(id, task_id) ==
    IF task_id \notin DOMAIN tasks
    THEN /\ last' = Call("notify", task_id, EmptyBody, IntegrityError, None, None)
         /\ UNCHANGED <<tasks, attachments, notifications, deleted, now>>
    ELSE /\ notifications' = notifications \cup {[id |-> id, task_id |-> task_id]}
         /\ last' = Call("notify", task_id, EmptyBody, Created, Lookup(task_id), None)
         /\ UNCHANGED <<tasks, attachments, deleted, now>>

----------------------------------------------------------------------------
\* Listing.

ListFilters == {"status", "priority", "due_before", "due_after"}

\* A filter of the query, None when it is not supplied.
Filter(q, f) == FieldOr(q.filters, f, None)

\* Mutant: the due bounds are exclusive.
apply_task_filters_Strict(row, status, priority, due_before, due_after) ==
    /\ ~IsNone(status) => row.status = status
    /\ ~IsNone(priority) => row.priority = priority
    /\ ~IsNone(due_before) => ~IsNone(row.eta) /\ Val(row.eta) < Val(due_before)
    /\ ~IsNone(due_after) => ~IsNone(row.eta) /\ Val(row.eta) > Val(due_after)

\* The WHERE clause _apply_task_filters builds, on one row. A comparison with
\* a NULL eta is not true in SQL, so the row is left out.
apply_task_filters(row, status, priority, due_before, due_after) ==
    /\ ~IsNone(status) => row.status = status
    /\ ~IsNone(priority) => row.priority = priority
    /\ ~IsNone(due_before) => ~IsNone(row.eta) /\ Val(row.eta) <= Val(due_before)
    /\ ~IsNone(due_after) => ~IsNone(row.eta) /\ Val(row.eta) >= Val(due_after)

\* The ids of the rows of `table` the filters of q select.
Selected(table, q) ==
    {i \in DOMAIN table :
        apply_task_filters(table[i], Filter(q, "status"), Filter(q, "priority"),
                           Filter(q, "due_before"), Filter(q, "due_after"))}

\* Mutant: ties in created_at are broken by id descending.
OrderBefore_IdDesc(table, a, b) ==
    \/ table[a].created_at > table[b].created_at
    \/ table[a].created_at = table[b].created_at /\ a > b

\* ORDER BY created_at DESC, id ASC: row a comes before row b.
OrderBefore(table, a, b) ==
    \/ table[a].created_at > table[b].created_at
    \/ table[a].created_at = table[b].created_at /\ a < b

\* The ids S in the order of the ORDER BY clause.
RECURSIVE OrderBy(_, _)
OrderBy(table, S) ==
    IF S = {} THEN <<>>
    ELSE LET first == CHOOSE a \in S : \A b \in S \ {a} : OrderBefore(table, a, b)
         IN <<first>> \o OrderBy(table, S \ {first})

Min(a, b) == IF a <= b THEN a ELSE b

\* LIMIT limit OFFSET offset on a sequence of rows.
LimitOffset(rows, limit, offset) == SubSeq(rows, offset + 1, Min(Len(rows), offset + limit))

\* Mutant: the page number is rounded up.
PageOf_RoundedUp(limit, offset) == ((offset + limit - 1) \div limit) + 1

\* page = (offset // limit) + 1
PageOf(limit, offset) == (offset \div limit) + 1

\* select(func.count(Task.id)) with the same filters.
CountOf(table, q) == Cardinality(Selected(table, q))

\* The TaskListResponse of list_tasks on the table.
TaskListResponse(table, q) ==
    LET ids == LimitOffset(OrderBy(table, Selected(table, q)), q.limit, q.offset) IN
    [tasks |-> [k \in 1 .. Len(ids) |-> task_to_response_dict(ids[k], table[ids[k]])],
     total |-> CountOf(table, q),
     page |-> PageOf(q.limit, q.offset),
     page_size |-> q.limit]

\* list_tasks_endpoint: status and priority are members of their
\* enumerations, limit >= 1 and offset >= 0.
ListQueryValid(q) ==
    /\ ("status" \in DOMAIN q.filters /\ ~IsNone(q.filters["status"])) =>
          Val(q.filters["status"]) \in TaskStatus
    /\ ("priority" \in DOMAIN q.filters /\ ~IsNone(q.filters["priority"])) =>
          Val(q.filters["priority"]) \in TaskPriority
    /\ q.limit >= 1
    /\ q.offset >= 0

\* GET /tasks
list_tasks(q) ==
    /\ IF ~ListQueryValid(q)
       THEN last' = Call("list", NoId, q, ValidationError, None, None)
       ELSE last' = Call("list", NoId, q, Ok, None, Some(TaskListResponse(tasks, q)))
    /\ UNCHANGED <<tasks, attachments, notifications, deleted, now>>

----------------------------------------------------------------------------
\* Sessions: get_db and the service calls, await by await.

\* One session per request in flight; two requests at a time.
SessionIds == {1, 2}

\* Exceptions a handler can end with, besides TaskNotFoundError.
StaleDataError ==
    [kind |-> "stale_data", http |-> 500, task_id |-> NoId,
     code |-> "", error |-> "stale data"]
RefreshError ==
    [kind |-> "refresh_error", http |-> 500, task_id |-> NoId,
     code |-> "", error |-> "could not refresh"]
Fault ==
    [kind |-> "fault", http |-> 500, task_id |-> NoId,
     code |-> "", error |-> "unhandled"]
NotInitialized ==
    [kind |-> "not_initialized", http |-> 500, task_id |-> NoId,
     code |-> "", error |-> "Database not initialized. Call init_db() first."]
\* asyncio.CancelledError: a BaseException, which `except Exception` lets by.
Cancelled ==
    [kind |-> "cancelled", http |-> 499, task_id |-> NoId,
     code |-> "", error |-> "cancelled"]

NoRequest == [op |-> "none", id |-> NoId, body |-> EmptyBody]
UpdateRequest(id, body) == [op |-> "update", id |-> id, body |-> body]
DeleteRequest(id) == [op |-> "delete", id |-> id, body |-> EmptyBody]

\* A session that serves no request. phase is get_db's position (none: not
\* entered; handler: at the yield, the handler runs; returned: the handler
\* returned, commit is next; raised: the handler raised, rollback is next;
\* closed: get_db is over and the caller has the outcome), pc the handler's
\* next await, loaded the row in the session's identity map, tx the image of
\* the tasks table inside the session's open write transaction, wrote
\* whether the session emitted an UPDATE or a DELETE. first, base and at
\* record what held when get_db yielded: whether no other request was in
\* flight, the committed tasks table, and the state of the startup migration.
NoSession ==
    [phase |-> "none", pc |-> "none", req |-> NoRequest, loaded |-> None,
     tx |-> None, wrote |-> FALSE, outcome |-> Ok, result |-> None,
     first |-> FALSE, base |-> [i \in {} |-> None], at |-> "none"]

\* The tasks table as session s reads it: its own uncommitted writes when it
\* has a transaction open, the committed table otherwise.
View(s) == IF IsNone(sessions[s].tx) THEN tasks ELSE Val(sessions[s].tx)

\* SQLite has one writer: a session can begin to write when no other session
\* has a write transaction open.
WriteLockFree(s) == \A o \in SessionIds \ {s} : IsNone(sessions[o].tx)

SetSession(s, r) == sessions' = [sessions EXCEPT ![s] = r]

\* get_db up to its yield: RuntimeError when the module was not initialised,
\* else a new session is handed to the handler of request `req`.
get_db(s, req) ==
    /\ sessions[s].phase = "none"
    /\ IF ~boot.engine
       THEN SetSession(s, [NoSession EXCEPT !.phase = "closed", !.req = req,
                                            !.outcome = NotInitialized])
       ELSE SetSession(s, [NoSession EXCEPT
                !.phase = "handler", !.pc = "select", !.req = req,
                !.first = \A o \in SessionIds \ {s} : sessions[o].phase = "none",
                !.base = tasks, !.at = boot.migration])
    /\ UNCHANGED <<tasks, attachments, notifications, deleted, now, last, boot>>

\* update_task / delete_task: select(Task).where(Task.id == task_id), and
\* TaskNotFoundError when there is no such row.
select_task(s) ==
    LET me == sessions[s]
        id == me.req.id
    IN /\ me.phase = "handler"
       /\ me.pc = "select"
       /\ IF id \notin DOMAIN View(s)
          THEN SetSession(s, [me EXCEPT !.phase = "raised", !.pc = "none",
                                        !.outcome = TaskNotFoundError(id)])
          ELSE SetSession(s, [me EXCEPT !.pc = "flush",
                                        !.loaded = Some(View(s)[id])])
       /\ UNCHANGED <<tasks, attachments, notifications, deleted, now, last, boot>>

\* The row an UPDATE leaves: the statement sets the columns whose value the
\* session changed on the object it loaded, and updated_at, on the row that
\* is in the table now.
EmitUpdate(cur, row, new, t) ==
    [f \in DOMAIN cur |->
        IF f = "updated_at" THEN t
        ELSE IF new[f] # row[f] THEN new[f] ELSE cur[f]]

\* Mutant: a flush that writes the loaded row back when the UPDATE matches
\* no row.
flush_update_Upsert(s) ==
    LET me == sessions[s]
        id == me.req.id
        row == Val(me.loaded)
        new == ApplyUpdate(row, me.req.body)
        db == View(s)
        cur == IF id \in DOMAIN db THEN db[id] ELSE row
    IN /\ me.phase = "handler"
       /\ me.pc = "flush"
       /\ me.req.op = "update"
       /\ IF new = row
          THEN SetSession(s, [me EXCEPT !.pc = "refresh"])
          ELSE /\ WriteLockFree(s)
               /\ SetSession(s, [me EXCEPT
                      !.pc = "refresh", !.wrote = TRUE,
                      !.tx = Some(Put(db, id, EmitUpdate(cur, row, new, now)))])
       /\ UNCHANGED <<tasks, attachments, notifications, deleted, now, last, boot>>

\* update_task from its assignments to session.flush(): no statement when no
\* column has a net change; else BEGIN and an UPDATE by primary key, which
\* raises StaleDataError when it matches no row.
flush_update(s) ==
    LET me == sessions[s]
        id == me.req.id
        row == Val(me.loaded)
        new == ApplyUpdate(row, me.req.body)
        db == View(s)
    IN /\ me.phase = "handler"
       /\ me.pc = "flush"
       /\ me.req.op = "update"
       /\ IF new = row
          THEN SetSession(s, [me EXCEPT !.pc = "refresh"])
          ELSE /\ WriteLockFree(s)
               /\ IF id \notin DOMAIN db
                  THEN SetSession(s, [me EXCEPT !.phase = "raised", !.pc = "none",
                                                !.outcome = StaleDataError])
                  ELSE SetSession(s, [me EXCEPT
                           !.pc = "refresh", !.wrote = TRUE,
                           !.tx = Some(Put(db, id, EmitUpdate(db[id], row, new, now)))])
       /\ UNCHANGED <<tasks, attachments, notifications, deleted, now, last, boot>>

\* update_task from session.refresh(task) to its return: the row is read
\* again, and the response is made of it.
refresh(s) ==
    LET me == sessions[s]
        id == me.req.id
        db == View(s)
    IN /\ me.phase = "handler"
       /\ me.pc = "refresh"
       /\ IF id \notin DOMAIN db
          THEN SetSession(s, [me EXCEPT !.phase = "raised", !.pc = "none",
                                        !.outcome = RefreshError])
          ELSE SetSession(s, [me EXCEPT
                   !.phase = "returned", !.pc = "none", !.outcome = Ok,
                   !.result = Some(task_to_response_dict(id, db[id]))])
       /\ UNCHANGED <<tasks, attachments, notifications, deleted, now, last, boot>>

\* delete_task from session.delete(task) to its return: BEGIN and a DELETE by
\* primary key (a DELETE that matches no row is a warning, not an error).
flush_delete(s) ==
    LET me == sessions[s] IN
    /\ me.phase = "handler"
    /\ me.pc = "flush"
    /\ me.req.op = "delete"
    /\ WriteLockFree(s)
    /\ SetSession(s, [me EXCEPT !.phase = "returned", !.pc = "none",
                                !.outcome = NoContent, !.wrote = TRUE,
                                !.tx = Some(Drop(View(s), me.req.id))])
    /\ UNCHANGED <<tasks, attachments, notifications, deleted, now, last, boot>>

\* session.close(): the connection of the session, on which get_db ran PRAGMA
\* foreign_keys=ON, goes back to the pool of the engine.
Pooled == [boot EXCEPT !.pool = boot.engine]

\* The committed tasks table after session.commit() of session s.
AfterCommit(s) == IF IsNone(sessions[s].tx) THEN tasks ELSE Val(sessions[s].tx)

\* Mutant: a rollback that keeps what the session flushed.
AfterRollback_Keep(s) == AfterCommit(s)

\* The committed tasks table after session.rollback() of session s.
AfterRollback(s) == tasks

\* Mutant: a close that commits the open transaction.
AfterClose_Commit(s) == AfterCommit(s)

\* The committed tasks table after session.close() of session s without a
\* commit: the connection goes back to the pool and its transaction is
\* rolled back.
AfterClose(s) == tasks

\* The store with `table` as the committed tasks table: the rows owned by the
\* tasks that went are gone with them, and their ids are deleted ids.
Store(table) ==
    LET gone == DOMAIN tasks \ DOMAIN table IN
    /\ tasks' = table
    /\ attachments' = {r \in attachments : r.task_id \notin gone}
    /\ notifications' = {r \in notifications : r.task_id \notin gone}
    /\ deleted' = deleted \cup gone

\* get_db after the handler returned: session.commit(), then session.close().
commit(s) ==
    LET me == sessions[s] IN
    /\ me.phase = "returned"
    /\ Store(AfterCommit(s))
    /\ SetSession(s, [me EXCEPT !.phase = "closed", !.tx = None, !.loaded = None])
    /\ boot' = Pooled
    /\ UNCHANGED <<now, last>>

\* get_db after the handler raised an Exception: session.rollback(), raise,
\* then session.close().
rollback(s) ==
    LET me == sessions[s] IN
    /\ me.phase = "raised"
    /\ Store(AfterRollback(s))
    /\ SetSession(s, [me EXCEPT !.phase = "closed", !.tx = None, !.loaded = None])
    /\ boot' = Pooled
    /\ UNCHANGED <<now, last>>

\* The handler raises an exception of its own at any of its awaits.
fault(s) ==
    LET me == sessions[s] IN
    /\ me.phase = "handler"
    /\ SetSession(s, [me EXCEPT !.phase = "raised", !.pc = "none", !.outcome = Fault])
    /\ UNCHANGED <<tasks, attachments, notifications, deleted, now, last, boot>>

\* The request is cancelled while the handler runs: CancelledError is thrown
\* in at get_db's yield, passes `except Exception`, and the finally clause
\* closes the session.
cancel(s) ==
    LET me == sessions[s] IN
    /\ me.phase = "handler"
    /\ Store(AfterClose(s))
    /\ SetSession(s, [me EXCEPT !.phase = "closed", !.pc = "none", !.tx = None,
                                !.loaded = None, !.outcome = Cancelled])
    /\ boot' = Pooled
    /\ UNCHANGED <<now, last>>

\* The caller has the outcome; the session id serves the next request.
release(s) ==
    /\ sessions[s].phase = "closed"
    /\ SetSession(s, NoSession)
    /\ UNCHANGED <<tasks, attachments, notifications, deleted, now, last, boot>>

----------------------------------------------------------------------------
\* Migrations: the initial revision, and alembic's upgrade and downgrade.

\* The head revision, and the revision of a database at base (the version
\* table holds no row of the head).
HeadRevision == "001_initial"
Versions == {HeadRevision, "base"}

\* upgrade() of the initial revision: the tables and the indexes it creates,
\* in the order of its statements.
initial_upgrade ==
    <<"tasks", "attachments", "notifications", "chat_history", "config",
      "idx_tasks_status", "idx_tasks_eta", "idx_tasks_priority",
      "idx_tasks_created", "idx_attachments_task_id", "idx_attachments_type",
      "idx_notifications_task_id", "idx_notifications_scheduled",
      "idx_notifications_status">>

\* Mutant: a downgrade that drops the indexes and keeps the tables.
initial_downgrade_KeepsTables ==
    <<"idx_notifications_status", "idx_notifications_scheduled",
      "idx_notifications_task_id", "idx_attachments_type",
      "idx_attachments_task_id", "idx_tasks_created", "idx_tasks_priority",
      "idx_tasks_eta", "idx_tasks_status">>

\* downgrade() of the initial revision: what it drops, in the order of its
\* statements.
initial_downgrade ==
    <<"idx_notifications_status", "idx_notifications_scheduled",
      "idx_notifications_task_id", "idx_attachments_type",
      "idx_attachments_task_id", "idx_tasks_created", "idx_tasks_priority",
      "idx_tasks_eta", "idx_tasks_status", "config", "chat_history",
      "notifications", "attachments", "tasks">>

\* Everything the initial revision creates.
InitialObjects == {initial_upgrade[i] : i \in DOMAIN initial_upgrade}

\* Where a migration can be made to fail by its environment (a locked or
\* full disk, an I/O error): 0 is nowhere, k the k-th statement of the
\* revision, and the one after the last the write of the version marker.
Faults == (0 .. MaxFault) \cup {Len(initial_upgrade) + 1}

\* The statements ops[i..] run in order on `schema`, CREATEs when create and
\* DROPs otherwise. The SQLite driver opens its transaction at the first
\* INSERT, UPDATE or DELETE, so each of these statements is committed as it
\* runs. A CREATE raises when the object exists, a DROP when it does not,
\* and the statement numbered `failing` raises in any case.
RECURSIVE RunDDL(_, _, _, _, _)
RunDDL(schema, ops, i, failing, create) ==
    IF i > Len(ops) THEN [schema |-> schema, ok |-> TRUE]
    ELSE IF i = failing \/ create = (ops[i] \in schema)
    THEN [schema |-> schema, ok |-> FALSE]
    ELSE RunDDL(IF create THEN schema \cup {ops[i]} ELSE schema \ {ops[i]},
                ops, i + 1, failing, create)

\* The connection of a migration run on the database file of b: the file is
\* created when it is missing, and the version table when the database has
\* none.
Opened(b) ==
    [b EXCEPT !.file = TRUE, !.readable = TRUE, !.version_table = TRUE]

\* Mutant: an upgrade that runs the revision whatever the version marker says.
alembic_upgrade_Rerun(b, failing) ==
    LET r == RunDDL(b.schema, initial_upgrade, 1, failing, TRUE)
        marked == r.ok /\ failing # Len(initial_upgrade) + 1
    IN [db |-> [Opened(b) EXCEPT !.schema = r.schema,
                                 !.version = IF marked THEN HeadRevision ELSE b.version],
        ok |-> marked]

\* alembic.command.upgrade(cfg, "head") through env.py on the database file
\* of b: nothing to run when the marker names the head; else the statements
\* of the initial revision, and then the marker is written and committed.
alembic_upgrade(b, failing) ==
    IF b.file /\ ~b.readable THEN [db |-> b, ok |-> FALSE]
    ELSE IF b.version_table /\ b.version = HeadRevision
    THEN [db |-> b, ok |-> TRUE]
    ELSE LET r == RunDDL(b.schema, initial_upgrade, 1, failing, TRUE)
             marked == r.ok /\ failing # Len(initial_upgrade) + 1
         IN [db |-> [Opened(b) EXCEPT
                        !.schema = r.schema,
                        !.version = IF marked THEN HeadRevision ELSE b.version],
             ok |-> marked]

\* alembic.command.downgrade(cfg, "-1") through env.py on the database file
\* of b: an error when the marker names no revision to step back from; else
\* the statements of the initial revision's downgrade, and then the marker
\* is deleted and committed.
alembic_downgrade(b, failing) ==
    IF b.file /\ ~b.readable THEN [db |-> b, ok |-> FALSE]
    ELSE IF ~(b.version_table /\ b.version = HeadRevision)
    THEN [db |-> Opened(b), ok |-> FALSE]
    ELSE LET r == RunDDL(b.schema, initial_downgrade, 1, failing, FALSE)
             unmarked == r.ok /\ failing # Len(initial_downgrade) + 1
         IN [db |-> [b EXCEPT !.schema = r.schema,
                              !.version = IF unmarked THEN "base" ELSE b.version],
             ok |-> unmarked]

----------------------------------------------------------------------------
\* Startup: init_db / init_db_async, the migration check, close_db.

\* The databases a process can be started on. url is the kind of
\* DATABASE_URL (an SQLite file, SQLite in memory, another engine); file:
\* the database file exists; readable: sqlite3 can open and query it;
\* version_table: it has the alembic_version table; version: what that table
\* holds; debug: settings.debug; ini: migrations/alembic.ini exists.
Databases ==
    {d \in [url : {"file", "memory", "other"}, file : BOOLEAN, readable : BOOLEAN,
            version_table : BOOLEAN, version : Versions, debug : BOOLEAN,
            ini : BOOLEAN] :
        /\ d.url # "file" => ~d.file
        /\ d.readable = (d.file /\ d.readable)
        /\ d.version_table => d.readable
        /\ d.version = HeadRevision => d.version_table}

\* No db command was run. cmd is the command, exit its exit code (-1: it has
\* not exited), asked whether it prompted, confirmed the answer, forced its
\* --yes flag, error the call that raised in it, before the database it was
\* run on.
NoCommand ==
    [cmd |-> "none", exit |-> -1, asked |-> FALSE, confirmed |-> FALSE,
     forced |-> FALSE, error |-> "none", before |-> None]

\* The module before init_db on a database: engine and async_session_maker
\* are None (engine: both are set, they are assigned together), no init call
\* is in flight (init), the startup migration has no state (migration), and
\* _run_migrations_sync was not called (called). schema is what the
\* database file holds of the initial revision; guarded: the running call of
\* _run_migrations_sync was made inside the try block of
\* _run_migrations_if_needed; log: the level at which the startup logged a
\* failed upgrade; call: the last of init_db, init_db_async and close_db
\* that was called; pool: the engine's pool holds a connection on which
\* get_db has run PRAGMA foreign_keys=ON; raw: what PRAGMA foreign_keys
\* answered on the last connection taken with engine.connect(); cli: the
\* operator's last db command; backup: the file `db dump` wrote.
Started(d) ==
    [url |-> d.url, file |-> d.file, readable |-> d.readable,
     version_table |-> d.version_table, version |-> d.version,
     debug |-> d.debug, ini |-> d.ini,
     schema |-> IF d.version = HeadRevision THEN InitialObjects ELSE {},
     engine |-> FALSE, init |-> "none", migration |-> "none", called |-> FALSE,
     guarded |-> FALSE, log |-> "none", call |-> "none", pool |-> FALSE,
     raw |-> "none", cli |-> NoCommand, backup |-> None]

\* A first start: no database file yet, production settings.
NotStarted ==
    Started([url |-> "file", file |-> FALSE, readable |-> FALSE,
             version_table |-> FALSE, version |-> "base", debug |-> FALSE,
             ini |-> TRUE])

\* _run_migrations_if_needed: whether it calls _run_migrations_sync.
RunsMigrations(b) ==
    IF b.url = "memory" THEN TRUE
    ELSE IF b.url # "file" THEN TRUE
    ELSE IF ~b.file THEN TRUE
    ELSE IF ~b.readable THEN TRUE
    ELSE ~b.version_table

\* _run_migrations_if_needed: whether its call of _run_migrations_sync is the
\* one inside the try block, made when the file could be read and has no
\* version table.
InTry(b) == b.url = "file" /\ b.file /\ b.readable /\ ~b.version_table

\* _run_migrations_if_needed up to alembic's upgrade: the decision, and
\* _run_migrations_sync's return when alembic.ini is missing.
Decide(b) ==
    IF RunsMigrations(b)
    THEN [b EXCEPT !.called = TRUE,
                   !.migration = IF b.ini THEN "running" ELSE "skipped",
                   !.guarded = b.ini /\ InTry(b)]
    ELSE [b EXCEPT !.migration = "not_needed"]

\* _upgrade of _run_migrations_sync: alembic.command.upgrade(cfg, "head")
\* ended, with the schema at head or with an exception, which is logged as
\* a warning when settings.debug and as an error otherwise.
Upgraded(b, failing) ==
    LET r == IF b.url = "file" THEN alembic_upgrade(b, failing)
             ELSE [db |-> b, ok |-> failing = 0]
    IN IF r.ok THEN [r.db EXCEPT !.migration = "done"]
       ELSE [r.db EXCEPT !.migration = "failed",
                         !.log = IF b.debug THEN "warning" ELSE "error"]

\* _upgrade raises RuntimeError("Database migration failed").
Raises(b) == b.migration = "failed" /\ ~b.debug

\* The except clause of _run_migrations_if_needed: a RuntimeError raised by
\* the call inside the try block is caught there, and _run_migrations_sync
\* is called once more.
Retries(b) == Raises(b) /\ b.guarded

\* How the init call ends: RuntimeError when the upgrade failed and debug is
\* off, a normal return otherwise.
InitResult(b) == IF b.migration = "failed" /\ ~b.debug THEN "raised" ELSE "returned"

\* The process is started on database d.
Deploy(d) ==
    /\ ~boot.engine
    /\ boot.init = "none"
    /\ \A s \in SessionIds : sessions[s].phase = "none"
    /\ boot' = Started(d)
    /\ UNCHANGED <<tasks, attachments, notifications, deleted, now, last, sessions>>

\* Mutant: an init_db that initialises again when the engine is set.
init_db_Again ==
    /\ boot.init # "awaiting"
    /\ \E f1 \in Faults :
          LET d == Decide([boot EXCEPT !.engine = TRUE, !.call = "init_db"])
              u == IF d.migration = "running" THEN Upgraded(d, f1) ELSE d
          IN boot' = [u EXCEPT !.init = InitResult(u), !.guarded = FALSE]
    /\ UNCHANGED <<tasks, attachments, notifications, deleted, now, last, sessions>>

\* init_db: nothing when the engine is set; else the engine and the
\* sessionmaker are assigned and the migration check runs, all in the
\* calling thread.
init_db ==
    /\ boot.init # "awaiting"
    /\ IF boot.engine
       THEN boot' = [boot EXCEPT !.call = "init_db"]
       ELSE \E f1 \in Faults, f2 \in Faults :
              LET d == Decide([boot EXCEPT !.engine = TRUE, !.call = "init_db"])
                  u == IF d.migration = "running" THEN Upgraded(d, f1) ELSE d
                  v == IF Retries(u)
                       THEN Upgraded([u EXCEPT !.guarded = FALSE], f2) ELSE u
              IN boot' = [v EXCEPT !.init = InitResult(v), !.guarded = FALSE]
    /\ UNCHANGED <<tasks, attachments, notifications, deleted, now, last, sessions>>

\* init_db_async up to its await: nothing when the engine is set; else the
\* engine and the sessionmaker are assigned and the migration check is handed
\* to a thread.
init_db_async ==
    /\ IF boot.engine
       THEN boot' = [boot EXCEPT !.call = "init_db_async"]
       ELSE boot' = [boot EXCEPT !.engine = TRUE, !.init = "awaiting",
                                 !.migration = "pending",
                                 !.call = "init_db_async"]
    /\ UNCHANGED <<tasks, attachments, notifications, deleted, now, last, sessions>>

\* The thread of init_db_async runs the migration check.
upgrade_start ==
    /\ boot.migration = "pending"
    /\ boot' = Decide(boot)
    /\ UNCHANGED <<tasks, attachments, notifications, deleted, now, last, sessions>>

\* The upgrade the thread runs ends; when its RuntimeError is caught by the
\* except clause of _run_migrations_if_needed, the upgrade runs once more.
upgrade_end(failing) ==
    /\ boot.init = "awaiting"
    /\ boot.migration = "running"
    /\ LET u == Upgraded(boot, failing) IN
       boot' = IF Retries(u)
               THEN [u EXCEPT !.migration = "running", !.guarded = FALSE]
               ELSE [u EXCEPT !.guarded = FALSE]
    /\ UNCHANGED <<tasks, attachments, notifications, deleted, now, last, sessions>>

\* init_db_async after its await: the thread is done.
init_db_async_resume ==
    /\ boot.init = "awaiting"
    /\ boot.migration \notin {"pending", "running"}
    /\ boot' = [boot EXCEPT !.init = InitResult(boot)]
    /\ UNCHANGED <<tasks, attachments, notifications, deleted, now, last, sessions>>

\* close_db: the engine is disposed of and both globals are None again;
\* nothing when the engine is None.
close_db ==
    /\ boot.init # "awaiting"
    /\ IF boot.engine
       THEN boot' = [boot EXCEPT !.engine = FALSE, !.init = "none",
                                 !.migration = "none", !.called = FALSE,
                                 !.log = "none", !.pool = FALSE, !.raw = "none",
                                 !.call = "close_db"]
       ELSE boot' = [boot EXCEPT !.call = "close_db"]
    /\ UNCHANGED <<tasks, attachments, notifications, deleted, now, last, sessions>>

\* engine.connect() and PRAGMA foreign_keys on the connection: the pool
\* hands out a connection of its own, on which get_db may have run PRAGMA
\* foreign_keys=ON, or makes a new one, on which nothing was run and SQLite
\* keeps its default, OFF.
engine_connect ==
    /\ boot.engine
    /\ \E pooled \in {p \in BOOLEAN : p => boot.pool} :
          boot' = [boot EXCEPT !.raw = IF pooled THEN "on" ELSE "off"]
    /\ UNCHANGED <<tasks, attachments, notifications, deleted, now, last, sessions>>

----------------------------------------------------------------------------
\* The db commands of the CLI, run by one operator on the database file at
\* settings.database_path.

\* The database file and what it holds.
Database ==
    [file |-> boot.file, readable |-> boot.readable,
     version_table |-> boot.version_table, version |-> boot.version,
     schema |-> boot.schema, tasks |-> tasks, attachments |-> attachments,
     notifications |-> notifications]

\* No file at the path.
NoDatabase ==
    [file |-> FALSE, readable |-> FALSE, version_table |-> FALSE,
     version |-> "base", schema |-> {}, tasks |-> [i \in {} |-> None],
     attachments |-> {}, notifications |-> {}]

\* A database file that holds nothing.
EmptyDatabase == [NoDatabase EXCEPT !.file = TRUE, !.readable = TRUE]

\* Database d after its DROP TABLEs: the rows of a table go with the table.
Kept(d) ==
    [d EXCEPT !.tasks = IF "tasks" \in d.schema THEN @ ELSE [i \in {} |-> None],
              !.attachments = IF "attachments" \in d.schema THEN @ ELSE {},
              !.notifications = IF "notifications" \in d.schema THEN @ ELSE {}]

\* The record of command cmd, run on the database as it is.
Command(cmd) == [NoCommand EXCEPT !.cmd = cmd, !.before = Some(Database)]

\* The command is over: the path holds database d, c is the record of the
\* command, and out the file `db dump` wrote.
Exit(d, c, out) ==
    /\ boot' = [boot EXCEPT !.file = d.file, !.readable = d.readable,
                            !.version_table = d.version_table,
                            !.version = d.version, !.schema = d.schema,
                            !.cli = c, !.backup = out]
    /\ tasks' = d.tasks
    /\ attachments' = d.attachments
    /\ notifications' = d.notifications
    /\ UNCHANGED <<deleted, now, last, sessions>>

\* db upgrade: alembic's upgrade to head; exit code 1 when it raises.
db_upgrade(failing) ==
    LET r == alembic_upgrade(Database, failing) IN
    Exit(r.db, [Command("upgrade") EXCEPT !.exit = IF r.ok THEN 0 ELSE 1],
         boot.backup)

\* db downgrade: alembic's downgrade by one step; exit code 1 when it raises.
db_downgrade(failing) ==
    LET r == alembic_downgrade(Database, failing) IN
    Exit(Kept(r.db), [Command("downgrade") EXCEPT !.exit = IF r.ok THEN 0 ELSE 1],
         boot.backup)

\* db dump --out FILE: exit code 1 when there is no database file; else the
\* file is written with the statements that make the database again.
db_dump ==
    /\ boot.file => boot.readable
    /\ IF ~boot.file
       THEN Exit(Database, [Command("dump") EXCEPT !.exit = 1], boot.backup)
       ELSE Exit(Database, [Command("dump") EXCEPT !.exit = 0], Some(Database))

\* How the try block of db restore can end: it runs through, or unlink,
\* sqlite3.connect or executescript raises.
RestoreOutcomes == {"ok", "unlink", "connect", "script"}

\* Mutant: a restore that puts the old file back when the script fails.
db_restore_Atomic(answer, outcome) ==
    LET c == Command("restore")
        c2 == [c EXCEPT !.asked = boot.file, !.confirmed = boot.file]
    IN IF boot.backup = None
       THEN Exit(Database, [c EXCEPT !.exit = 1], boot.backup)
       ELSE IF boot.file /\ ~answer
       THEN Exit(Database, [c EXCEPT !.asked = TRUE, !.exit = 0], boot.backup)
       ELSE IF outcome = "unlink" /\ boot.file
       THEN Exit(Database, [c2 EXCEPT !.exit = 1, !.error = "unlink"], boot.backup)
       ELSE IF outcome \in {"connect", "script"}
       THEN Exit(Database, [c2 EXCEPT !.exit = 1, !.error = outcome], boot.backup)
       ELSE Exit(Val(boot.backup), [c2 EXCEPT !.exit = 0], boot.backup)

\* db restore --in FILE: exit code 1 when the input file is missing; a
\* prompt when the database file exists, and exit code 0 when the answer is
\* no; then the database file is unlinked and the script is run on a new
\* one. A script that `db dump` wrote is one transaction, so one that fails
\* leaves a database that holds nothing.
db_restore(answer, outcome) ==
    LET c == Command("restore")
        c2 == [c EXCEPT !.asked = boot.file, !.confirmed = boot.file]
    IN IF boot.backup = None
       THEN Exit(Database, [c EXCEPT !.exit = 1], boot.backup)
       ELSE IF boot.file /\ ~answer
       THEN Exit(Database, [c EXCEPT !.asked = TRUE, !.exit = 0], boot.backup)
       ELSE IF outcome = "unlink" /\ boot.file
       THEN Exit(Database, [c2 EXCEPT !.exit = 1, !.error = "unlink"], boot.backup)
       ELSE IF outcome = "connect"
       THEN Exit(NoDatabase, [c2 EXCEPT !.exit = 1, !.error = "connect"], boot.backup)
       ELSE IF outcome = "script"
       THEN Exit(EmptyDatabase, [c2 EXCEPT !.exit = 1, !.error = "script"], boot.backup)
       ELSE Exit(Val(boot.backup), [c2 EXCEPT !.exit = 0], boot.backup)

\* Mutant: a reset that deletes the file whatever the answer to its prompt.
db_reset_Unasked(yes, answer, unlinked) ==
    LET c == [Command("reset") EXCEPT !.forced = yes]
        c2 == [c EXCEPT !.asked = ~yes, !.confirmed = ~yes /\ answer]
    IN IF ~boot.file
       THEN Exit(Database, [c EXCEPT !.exit = 0], boot.backup)
       ELSE IF unlinked
       THEN Exit(NoDatabase, [c2 EXCEPT !.exit = 0], boot.backup)
       ELSE Exit(Database, [c2 EXCEPT !.exit = 1, !.error = "unlink"], boot.backup)

\* db reset [--yes]: exit code 0 when there is no database file; a prompt
\* without --yes, and exit code 0 when the answer is no; then the file is
\* unlinked, with exit code 1 when that raises.
db_reset(yes, answer, unlinked) ==
    LET c == [Command("reset") EXCEPT !.forced = yes]
        c2 == [c EXCEPT !.asked = ~yes, !.confirmed = ~yes]
    IN IF ~boot.file
       THEN Exit(Database, [c EXCEPT !.exit = 0], boot.backup)
       ELSE IF ~yes /\ ~answer
       THEN Exit(Database, [c EXCEPT !.asked = TRUE, !.exit = 0], boot.backup)
       ELSE IF unlinked
       THEN Exit(NoDatabase, [c2 EXCEPT !.exit = 0], boot.backup)
       ELSE Exit(Database, [c2 EXCEPT !.exit = 1, !.error = "unlink"], boot.backup)

----------------------------------------------------------------------------
\* The clock.

\* One second passes.
Tick ==
    /\ now < MaxTime
    /\ now' = now + 1
    /\ UNCHANGED <<tasks, attachments, notifications, deleted, last, txvars>>

----------------------------------------------------------------------------
\* Inputs.

RawValues(f) ==
    CASE f = "title" -> {None, Some(0), Some(MinTitleLength), Some(MaxTitleLength),
                         Some(MaxTitleLength + 1)}
      [] f = "description" -> {None, Some("d1")}
      [] f = "status" -> {None, Some("bogus")} \cup {Some(s) : s \in TaskStatus}
      [] f = "priority" -> {None, Some("bogus")} \cup {Some(p) : p \in TaskPriority}
      [] f = "eta" -> {None} \cup {Some(e) : e \in 1 .. MaxEta}
      [] f = "tags" -> {None, Some(<<"t1", "t2">>)}
      [] f = "metadata" -> {None, Some([key |-> "value"])}
      [] f = "due_before" -> {Some(e) : e \in 1 .. MaxEta}
      [] f = "due_after" -> {Some(e) : e \in 1 .. MaxEta}

\* The request bodies whose present fields are exactly D.
RECURSIVE BodiesOver(_)
BodiesOver(D) ==
    IF D = {} THEN {EmptyBody}
    ELSE LET f == CHOOSE x \in D : TRUE IN
         {[g \in DOMAIN b \cup {f} |-> IF g = f THEN v ELSE b[g]] :
             b \in BodiesOver(D \ {f}), v \in RawValues(f)}

\* The request bodies over the fields F with at most k fields present.
Bodies(F, k) ==
    UNION {BodiesOver(D) : D \in {X \in SUBSET F : Cardinality(X) <= k}}

NoCall ==
    [op |-> "none", id |-> NoId, body |-> EmptyBody, outcome |-> Ok,
     before |-> None, result |-> None, wasDeleted |-> FALSE, owned |-> <<0, 0>>]

Init ==
    /\ tasks = [i \in {} |-> None]
    /\ attachments = {}
    /\ notifications = {}
    /\ deleted = {}
    /\ now = 1
    /\ last = NoCall
    /\ sessions = [s \in SessionIds |-> NoSession]
    /\ boot = NotStarted

\* The client makes one request at a time: it makes a call when it holds no
\* response, and Return is its reading the response of the call it made.
Idle == last.op = "none"

Return ==
    /\ ~Idle
    /\ last' = NoCall
    /\ UNCHANGED <<tasks, attachments, notifications, deleted, now, txvars>>

\* A body with field f set to v.
With(b, f, v) == [g \in DOMAIN b \cup {f} |-> IF g = f THEN v ELSE b[g]]

----------------------------------------------------------------------------
\* Field-level specification: one task in the table at a time, every field
\* and every raw value. A create body holds any title (or none) and at most
\* one other field; an update document holds at most one field.
CreateBodies ==
    LET rest == Bodies(TaskFields \ {"title"}, 1) IN
    rest \cup {With(b, "title", v) : b \in rest, v \in RawValues("title")}
UpdateBodies == Bodies(TaskFields, 1)

Next ==
    \/ /\ Idle
       /\ UNCHANGED txvars
       /\ \/ \E body \in CreateBodies : DOMAIN tasks = {} /\ create_task(body)
          \/ \E id \in Ids : get_task(id)
          \/ \E id \in Ids, body \in UpdateBodies : update_task(id, body)
          \/ \E id \in Ids : delete_task(id)
    \/ Return

Spec == Init /\ [][Next]_vars

----------------------------------------------------------------------------
\* Lifecycle specification: several tasks with the rows they own, few fields.
LifeCreateBodies ==
    {[title |-> Some(MinTitleLength)], [title |-> Some(0)]}
LifeUpdateBodies ==
    {EmptyBody, [status |-> Some("completed")], [title |-> None]}

ChildIds == 1 .. MaxChildren

NextLife ==
    \/ /\ Idle
       /\ UNCHANGED txvars
       /\ \/ \E body \in LifeCreateBodies : create_task(body)
          \/ \E id \in Ids : get_task(id)
          \/ \E id \in Ids, body \in LifeUpdateBodies : update_task(id, body)
          \/ \E id \in Ids : delete_task(id)
          \/ \E a \in ChildIds \ {r.id : r \in attachments}, t \in Ids :
                add_attachment(a, t)
          \/ \E n \in ChildIds \ {r.id : r \in notifications}, t \in Ids :
                add_notification(n, t)
    \/ Return

SpecLife == Init /\ [][NextLife]_vars

----------------------------------------------------------------------------
\* Filter specification: tasks that differ in one of the filtered columns,
\* and every combination of filters with the default limit and offset.
FilterCreateBodies ==
    {With(b, "title", Some(MinTitleLength)) :
        b \in {x \in Bodies({"status", "priority", "eta"}, 1) : TaskUpdateValid(x)}}

\* A query parameter that is supplied has a value.
FilterQueries ==
    [filters : {b \in BodiesOver(ListFilters) \cup Bodies(ListFilters, 3) :
                   \A f \in DOMAIN b : ~IsNone(b[f])},
     limit : {DefaultLimit},
     offset : {0}]

NextFilter ==
    \/ /\ Idle
       /\ UNCHANGED txvars
       /\ \/ \E body \in FilterCreateBodies : create_task(body)
          \/ \E q \in FilterQueries : list_tasks(q)
    \/ Return

SpecFilter == Init /\ [][NextFilter]_vars

----------------------------------------------------------------------------
\* Pagination specification: tasks created in the same second or in different
\* seconds, and every limit and offset around the number of tasks.
PageCreateBodies ==
    {[title |-> Some(MinTitleLength)],
     [title |-> Some(MinTitleLength), status |-> Some("completed")]}

PageQueries ==
    [filters : {EmptyBody, [status |-> Some("pending")], [status |-> Some("completed")]},
     limit : 0 .. MaxIds,
     offset : 0 .. MaxIds + 1]

NextPage ==
    \/ /\ Idle
       /\ UNCHANGED txvars
       /\ \/ \E body \in PageCreateBodies : create_task(body)
          \/ \E q \in PageQueries : list_tasks(q)
    \/ Return
    \/ Tick

SpecPage == Init /\ [][NextPage]_vars

----------------------------------------------------------------------------
\* Round-trip specification: the client creates a task and, having read the
\* record, gets the task by the record's id at once.
NextRound ==
    \/ /\ Idle
       /\ UNCHANGED txvars
       /\ \/ \E body \in CreateBodies : DOMAIN tasks = {} /\ create_task(body)
          \/ \E id \in Ids : delete_task(id)
    \/ /\ last.op = "create"
       /\ last.outcome.kind = "ok"
       /\ UNCHANGED txvars
       /\ get_task(Val(last.result).id)
    \/ Return
    \/ Tick

SpecRound == Init /\ [][NextRound]_vars

----------------------------------------------------------------------------
\* Timestamp specification: tasks created, updated and deleted while the
\* clock runs; update documents that change a column, that set a column to
\* the value it has, and that hold nothing.
TimeUpdateBodies ==
    {EmptyBody, [status |-> Some("completed")], [status |-> Some("pending")],
     [status |-> None], [title |-> None]}

NextTime ==
    \/ /\ Idle
       /\ UNCHANGED txvars
       /\ \/ \E body \in LifeCreateBodies : create_task(body)
          \/ \E id \in Ids, body \in TimeUpdateBodies : update_task(id, body)
          \/ \E id \in Ids : delete_task(id)
    \/ Return
    \/ Tick

SpecTime == Init /\ [][NextTime]_vars

----------------------------------------------------------------------------
\* Transaction specification: the module is initialised, one task is
\* created, and once startup has returned two sessions serve update and
\* delete requests for the id the create returned, await by await, each
\* ending in a commit, a rollback or a cancellation.
TxCreateBodies == {[title |-> Some(MinTitleLength)]}

TxUpdateBodies ==
    {[title |-> Some(MaxTitleLength), status |-> Some("pending")],
     [title |-> Some(MinTitleLength), status |-> Some("completed")]}

TxRequests ==
    LET known == DOMAIN tasks \cup deleted IN
    {UpdateRequest(id, body) : id \in known, body \in TxUpdateBodies}
        \cup {DeleteRequest(id) : id \in known}

NextTx ==
    \/ init_db
    \/ /\ Idle
       /\ boot.engine
       /\ \A s \in SessionIds : sessions[s].phase = "none"
       /\ UNCHANGED txvars
       /\ \E body \in TxCreateBodies :
             DOMAIN tasks = {} /\ deleted = {} /\ create_task(body)
    \/ Return
    \/ \E s \in SessionIds, req \in TxRequests :
          boot.init = "returned" /\ get_db(s, req)
    \/ \E s \in SessionIds : select_task(s)
    \/ \E s \in SessionIds : flush_update(s)
    \/ \E s \in SessionIds : flush_delete(s)
    \/ \E s \in SessionIds : refresh(s)
    \/ \E s \in SessionIds : commit(s)
    \/ \E s \in SessionIds : rollback(s)
    \/ \E s \in SessionIds : fault(s)
    \/ \E s \in SessionIds : cancel(s)
    \/ \E s \in SessionIds : release(s)

SpecTx == Init /\ [][NextTx]_vars

----------------------------------------------------------------------------
\* Startup specification: the process is started on any database, through
\* init_db or init_db_async, while requests ask get_db for a session.
NextBoot ==
    \/ \E d \in Databases : Deploy(d)
    \/ init_db
    \/ init_db_async
    \/ upgrade_start
    \/ \E failing \in Faults : upgrade_end(failing)
    \/ init_db_async_resume
    \/ close_db
    \/ \E s \in SessionIds, id \in Ids : get_db(s, DeleteRequest(id))
    \/ \E s \in SessionIds : select_task(s)
    \/ \E s \in SessionIds : rollback(s)
    \/ \E s \in SessionIds : release(s)

SpecBoot == Init /\ [][NextBoot]_vars

----------------------------------------------------------------------------
\* Connection specification: after init_db, requests take sessions from
\* get_db while connections are taken from the engine directly.
NextConn ==
    \/ init_db
    \/ close_db
    \/ engine_connect
    \/ \E s \in SessionIds, id \in Ids : get_db(s, DeleteRequest(id))
    \/ \E s \in SessionIds : select_task(s)
    \/ \E s \in SessionIds : rollback(s)
    \/ \E s \in SessionIds : release(s)

SpecConn == Init /\ [][NextConn]_vars

----------------------------------------------------------------------------
\* CLI specification: the operator runs db commands on the database file,
\* and tasks are created in it while its schema has the tasks table.
CliCreateBodies == {[title |-> Some(MinTitleLength)]}

NextCli ==
    \/ /\ Idle
       /\ \/ \E failing \in Faults : db_upgrade(failing)
          \/ \E failing \in Faults : db_downgrade(failing)
          \/ db_dump
          \/ \E answer \in BOOLEAN, outcome \in RestoreOutcomes :
                db_restore(answer, outcome)
          \/ \E yes \in BOOLEAN, answer \in BOOLEAN, unlinked \in BOOLEAN :
                db_reset(yes, answer, unlinked)
    \/ /\ Idle
       /\ boot.file
       /\ "tasks" \in boot.schema
       /\ UNCHANGED txvars
       /\ \E body \in CliCreateBodies : create_task(body)
    \/ Return

SpecCli == Init /\ [][NextCli]_vars

----------------------------------------------------------------------------
\* Claims.

\* The last call was `op` and it returned normally.
Returned(op) == last.op = op /\ last.outcome.kind = "ok"

\* The columns a request body can address.
BodyColumns == {"title", "description", "status", "priority", "eta", "tags", "metadata"}

\* C1 as claimed: an update of an existing task sets every field present in
\* the document to the supplied value, and leaves every field absent from it,
\* and id and created_at, as they were before the call.
C1_AsClaimed ==
    Returned("update") =>
        LET before == Val(last.before)
            row == tasks[last.id]
            resp == Val(last.result)
        IN /\ \A f \in BodyColumns :
                IF f \in DOMAIN last.body
                THEN row[f] = last.body[f] /\ resp[f] = last.body[f]
                ELSE row[f] = before[f] /\ resp[f] = before[f]
           /\ resp.id = last.id
           /\ row.created_at = before.created_at
           /\ resp.created_at = before.created_at

\* C1 as amended: an update of an existing task sets every field present in
\* the document to the supplied value, except that a status or priority
\* supplied as null is left as it was; it leaves every field absent from the
\* document, and id and created_at, as they were before the call. An explicit
\* null clears description, eta, tags and metadata.
C1_UpdateSetsPresentFields ==
    Returned("update") =>
        LET before == Val(last.before)
            row == tasks[last.id]
            resp == Val(last.result)
            kept(f) == \/ f \notin DOMAIN last.body
                       \/ f \in {"status", "priority"} /\ last.body[f] = <<>>
        IN /\ \A f \in BodyColumns :
                IF kept(f)
                THEN row[f] = before[f] /\ resp[f] = before[f]
                ELSE row[f] = last.body[f] /\ resp[f] = last.body[f]
           /\ resp.id = last.id
           /\ row.created_at = before.created_at
           /\ resp.created_at = before.created_at

\* An update cleared a description that was set, with an explicit null.
C1_Witness ==
    /\ Returned("update")
    /\ DOMAIN last.body = {"description"}
    /\ last.body["description"] = <<>>
    /\ Val(last.before).description # <<>>
    /\ tasks[last.id].description = <<>>
    /\ tasks[last.id].status # <<"pending">>

\* C2: an update of an existing task whose document holds title: null fails
\* validation, and the stored task is afterwards what it was before.
C2_NullTitleRejected ==
    (/\ last.op = "update"
     /\ last.before # <<>>
     /\ "title" \in DOMAIN last.body
     /\ last.body["title"] = <<>>)
    => /\ last.outcome.kind = "validation_error"
       /\ last.outcome.http = 422
       /\ last.result = <<>>
       /\ last.id \in DOMAIN tasks
       /\ tasks[last.id] = Val(last.before)

\* A title: null update was made on a task whose title had been changed.
C2_Witness ==
    /\ last.op = "update"
    /\ last.before # <<>>
    /\ last.body = [title |-> <<>>]
    /\ tasks[last.id].title = <<255>>
    /\ last.outcome.kind = "validation_error"

\* C3: every stored task has a non-null title of 1 to 255 characters, a
\* status in {pending, in_progress, completed} and a priority in {low, medium,
\* high, critical}.
C3_StoredTasksValid ==
    \A id \in DOMAIN tasks :
        /\ tasks[id].title # <<>>
        /\ Val(tasks[id].title) >= 1
        /\ Val(tasks[id].title) <= 255
        /\ tasks[id].status \in {<<"pending">>, <<"in_progress">>, <<"completed">>}
        /\ tasks[id].priority \in {<<"low">>, <<"medium">>, <<"high">>, <<"critical">>}

\* A task created with one title was given another by an update.
C3_Witness ==
    /\ Returned("update")
    /\ "title" \in DOMAIN last.body
    /\ Val(last.before).title = <<1>>
    /\ tasks[last.id].title = <<255>>
    /\ tasks[last.id].priority = <<"critical">>

\* C4: get_task, update_task and delete_task called with an id that is not
\* in the store raise TaskNotFoundError carrying that id and the code
\* TASK_NOT_FOUND, answered as a 404 with the {error, code} body, and leave
\* every table as it was.
C4_NotFoundLeavesStore ==
    [][(/\ last'.op \in {"get", "update", "delete"}
        /\ last'.id \notin DOMAIN tasks
        /\ last'.op = "update" => TaskUpdateValid(last'.body))
       => /\ last'.outcome.kind = "task_not_found"
          /\ last'.outcome.task_id = last'.id
          /\ last'.outcome.code = "TASK_NOT_FOUND"
          /\ last'.outcome.http = 404
          /\ last'.outcome.error = "Task not found"
          /\ last'.result = <<>>
          /\ tasks' = tasks
          /\ attachments' = attachments
          /\ notifications' = notifications]_vars

\* An update that would change a column was made on an id that was deleted,
\* while another task and an attachment of it were stored.
C4_Witness ==
    /\ last.op = "update"
    /\ last.body = [status |-> <<"completed">>]
    /\ last.outcome.kind = "task_not_found"
    /\ last.wasDeleted
    /\ DOMAIN tasks # {}
    /\ attachments # {}

\* C5: after a task that owns N attachments and M notifications is deleted,
\* no attachment and no notification has the deleted task's id as task_id.
C5_DeleteCascades ==
    Returned("delete") =>
        /\ \A r \in attachments : r.task_id # last.id
        /\ \A r \in notifications : r.task_id # last.id

\* A task that owned two attachments and a notification was deleted, and a
\* row of another task is still stored.
C5_Witness ==
    /\ Returned("delete")
    /\ last.owned[1] = 2
    /\ last.owned[2] >= 1
    /\ notifications # {}

\* C6: once delete_task(id) has succeeded the id is in no later store, and
\* every later get_task(id) and delete_task(id) raises not-found.
C6_DeletedStaysDeleted ==
    /\ \A id \in deleted : id \notin DOMAIN tasks
    /\ (last.op \in {"get", "delete"} /\ last.wasDeleted) =>
          /\ last.outcome.kind = "task_not_found"
          /\ last.outcome.task_id = last.id

\* A second delete of a deleted id, after another task was created and
\* updated.
C6_Witness ==
    /\ last.op = "delete"
    /\ last.wasDeleted
    /\ \E other \in DOMAIN tasks : tasks[other].status = <<"completed">>

\* The filter `f` of the last list call is supplied.
Supplied(f) == f \in DOMAIN last.body.filters

\* The stored task `id` satisfies every filter the last list call supplied:
\* status and priority by exact match, eta <= due_before and eta >= due_after,
\* which a null eta never satisfies.
SatisfiesFilters(id) ==
    /\ Supplied("status") => tasks[id].status = last.body.filters["status"]
    /\ Supplied("priority") => tasks[id].priority = last.body.filters["priority"]
    /\ Supplied("due_before") =>
          /\ tasks[id].eta # <<>>
          /\ Val(tasks[id].eta) <= Val(last.body.filters["due_before"])
    /\ Supplied("due_after") =>
          /\ tasks[id].eta # <<>>
          /\ Val(tasks[id].eta) >= Val(last.body.filters["due_after"])

\* The ids of the tasks a list response holds, in its order.
ResponseIds(resp) == [k \in 1 .. Len(resp.tasks) |-> resp.tasks[k].id]

\* The elements of a sequence.
Range(seq) == {seq[k] : k \in 1 .. Len(seq)}

\* C7: list_tasks returns exactly the stored tasks that satisfy every
\* supplied filter, each once and as it is stored; filters that are not
\* supplied do not restrict, and a task with a null eta is not returned when
\* due_before or due_after is supplied.
C7_ListReturnsMatching ==
    Returned("list") =>
        LET resp == Val(last.result) IN
        /\ Range(ResponseIds(resp)) = {id \in DOMAIN tasks : SatisfiesFilters(id)}
        /\ Len(resp.tasks) = Cardinality(Range(ResponseIds(resp)))
        /\ \A k \in 1 .. Len(resp.tasks) :
              /\ resp.tasks[k].status = tasks[resp.tasks[k].id].status
              /\ resp.tasks[k].priority = tasks[resp.tasks[k].id].priority
              /\ resp.tasks[k].eta = tasks[resp.tasks[k].id].eta

\* A list call with a status filter and a due_before bound returned a task
\* whose eta equals the bound and left out a task of that status with a null
\* eta.
C7_Witness ==
    /\ Returned("list")
    /\ DOMAIN last.body.filters = {"status", "due_before"}
    /\ \E k \in 1 .. Len(Val(last.result).tasks) :
          Val(last.result).tasks[k].eta = last.body.filters["due_before"]
    /\ \E id \in DOMAIN tasks :
          /\ tasks[id].eta = <<>>
          /\ tasks[id].status = last.body.filters["status"]

\* The ids of the page list_tasks returns for a limit and an offset, with no
\* filter.
PageIds(limit, offset) ==
    ResponseIds(TaskListResponse(tasks, [filters |-> EmptyBody, limit |-> limit,
                                         offset |-> offset]))

\* The pages at offsets 0, limit, 2 * limit, ..., k * limit, one after another.
RECURSIVE PagesUpTo(_, _)
PagesUpTo(limit, k) ==
    IF k = 0 THEN PageIds(limit, 0)
    ELSE PagesUpTo(limit, k - 1) \o PageIds(limit, k * limit)

\* C8: for the N stored tasks and any limit >= 1, the pages at offsets 0,
\* limit, 2 * limit, ... read with no write in between hold each task id
\* exactly once, in the order created_at descending then id ascending, also
\* when tasks share a created_at.
C8_PagesCoverInOrder ==
    \A limit \in 1 .. MaxIds + 1 :
        LET N == Cardinality(DOMAIN tasks)
            all == PagesUpTo(limit, N)
        IN /\ Len(all) = N
           /\ Range(all) = DOMAIN tasks
           /\ \A i \in 1 .. Len(all) : \A j \in 1 .. Len(all) :
                 i < j =>
                   \/ tasks[all[i]].created_at > tasks[all[j]].created_at
                   \/ /\ tasks[all[i]].created_at = tasks[all[j]].created_at
                      /\ all[i] < all[j]
           /\ (/\ Returned("list")
               /\ last.body.filters = EmptyBody
               /\ last.body.limit = limit
               /\ last.body.offset % limit = 0
               /\ last.body.offset <= N * limit)
              => ResponseIds(Val(last.result)) =
                   SubSeq(all, last.body.offset + 1,
                          IF last.body.offset + limit < N
                          THEN last.body.offset + limit ELSE N)

\* The second page of one task was read while two tasks created in the same
\* second were stored.
C8_Witness ==
    /\ Returned("list")
    /\ last.body.filters = EmptyBody
    /\ last.body.limit = 1
    /\ last.body.offset = 1
    /\ Len(Val(last.result).tasks) = 1
    /\ \E a \in DOMAIN tasks : \E b \in DOMAIN tasks :
          a # b /\ tasks[a].created_at = tasks[b].created_at

\* C9: a list response has total equal to the number of stored tasks that
\* match the filters whatever the limit and offset, so that an offset past the
\* end gives no tasks and the full total; page is offset integer-divided by
\* limit plus 1; page_size is the requested limit.
C9_TotalPageAndSize ==
    Returned("list") =>
        LET resp == Val(last.result)
            matching == {id \in DOMAIN tasks : SatisfiesFilters(id)}
        IN /\ resp.total = Cardinality(matching)
           /\ last.body.offset >= resp.total => resp.tasks = <<>>
           /\ \E r \in 0 .. last.body.limit - 1 :
                 last.body.offset = (resp.page - 1) * last.body.limit + r
           /\ resp.page_size = last.body.limit

\* A list call with an offset past the end that is no multiple of the limit:
\* no tasks, the full total, and fewer rows than page_size.
C9_Witness ==
    /\ Returned("list")
    /\ last.body.limit = 2
    /\ last.body.offset = 3
    /\ Val(last.result).total = 2
    /\ Val(last.result).tasks = <<>>
    /\ Val(last.result).page = 2
    /\ Supplied("status")

\* C10: create_task on a valid body returns a record with a non-null id,
\* created_at equal to updated_at, status pending when status was omitted,
\* priority medium when priority was omitted, and no attachments.
C10_CreateReturnsDefaults ==
    (last.op = "create" /\ last.outcome.kind # "validation_error") =>
        /\ last.outcome.kind = "ok"
        /\ last.result # <<>>
        /\ LET resp == Val(last.result) IN
           /\ resp.id # NoId
           /\ resp.id \in DOMAIN tasks
           /\ resp.created_at = resp.updated_at
           /\ "status" \notin DOMAIN last.body => resp.status = <<"pending">>
           /\ "priority" \notin DOMAIN last.body => resp.priority = <<"medium">>
           /\ resp.attachments = <<>>

\* A task was created from a body that gives a priority and no status.
C10_Witness ==
    /\ Returned("create")
    /\ DOMAIN last.body = {"title", "priority"}
    /\ Val(last.result).priority = <<"high">>
    /\ Val(last.result).status = <<"pending">>
    /\ deleted # {}

C12_EmptyUpdateIsIdentity ==
    [][(/\ last'.op = "update"
        /\ DOMAIN last'.body = {}
        /\ last'.id \in DOMAIN tasks)
       => /\ last'.outcome.kind = "ok"
          /\ Val(last'.result).id = last'.id
          /\ \A f \in DOMAIN tasks[last'.id] :
                Val(last'.result)[f] = tasks[last'.id][f]
          /\ tasks' = tasks
          /\ attachments' = attachments
          /\ notifications' = notifications
          /\ deleted' = deleted]_vars

\* An empty update returned after the clock had passed the task's updated_at.
C12_Witness ==
    /\ Returned("update")
    /\ DOMAIN last.body = {}
    /\ tasks[last.id].updated_at < now

\* C13: over any sequence of operations on a task, created_at never changes
\* and updated_at never decreases, and every accepted update that changes the
\* task sets updated_at to the time of that update.
C13_TimestampsMonotonic ==
    [][\A id \in DOMAIN tasks \cap DOMAIN tasks' :
          /\ tasks'[id].created_at = tasks[id].created_at
          /\ tasks'[id].updated_at >= tasks[id].updated_at
          /\ tasks'[id] # tasks[id] =>
                /\ last'.op = "update"
                /\ last'.id = id
                /\ last'.outcome.kind = "ok"
                /\ tasks'[id].updated_at = now]_vars

\* An update changed a task in a later second than the one it was created in.
C13_Witness ==
    /\ Returned("update")
    /\ tasks[last.id] # Val(last.before)
    /\ tasks[last.id].updated_at > tasks[last.id].created_at

\* C14: update_task writes status and priority only when the document
\* supplies a non-null enumerated value for them; an update that supplies
\* status or priority as null is accepted and leaves the stored value as it
\* was.
C14_NullStatusPriorityIgnored ==
    (last.op = "update" /\ last.before # <<>>) =>
        \A f \in {"status", "priority"} :
            /\ (f \in DOMAIN last.body /\ last.body[f] = <<>>
                    /\ \A g \in DOMAIN last.body \ {f} : last.body[g] # <<>>
                    /\ TaskUpdateValid([h \in DOMAIN last.body \ {f} |-> last.body[h]]))
                  => /\ last.outcome.kind = "ok"
                     /\ tasks[last.id][f] = Val(last.before)[f]
                     /\ Val(last.result)[f] = Val(last.before)[f]
            /\ (last.id \in DOMAIN tasks /\ tasks[last.id][f] # Val(last.before)[f])
                  => /\ f \in DOMAIN last.body
                     /\ last.body[f] # <<>>
                     /\ Val(last.body[f]) \in (IF f = "status" THEN TaskStatus
                                                ELSE TaskPriority)
                     /\ tasks[last.id][f] = last.body[f]

\* An update with priority: null was accepted on a task whose priority is
\* not the default.
C14_Witness ==
    /\ Returned("update")
    /\ DOMAIN last.body = {"priority"}
    /\ last.body["priority"] = <<>>
    /\ tasks[last.id].priority = <<"high">>

\* What C15 names as failing validation: an empty title, a title longer than
\* 255 characters, a null title, a status or a priority outside its
\* enumeration.
ClaimedInvalid(body) ==
    \/ /\ "title" \in DOMAIN body
       /\ \/ body["title"] = <<>>
          \/ body["title"] # <<>> /\ Val(body["title"]) < MinTitleLength
          \/ body["title"] # <<>> /\ Val(body["title"]) > MaxTitleLength
    \/ \E f \in {"status", "priority"} :
          /\ f \in DOMAIN body
          /\ body[f] # <<>>
          /\ Val(body[f]) \notin (IF f = "status" THEN TaskStatus ELSE TaskPriority)

\* C15: a create or update request that fails validation is rejected before
\* any store access: the store is unchanged and the outcome is the validation
\* error, whether or not the addressed task exists.
C15_InvalidRejectedBeforeStore ==
    [][(last'.op \in {"create", "update"} /\ ClaimedInvalid(last'.body))
       => /\ last'.outcome = ValidationError
          /\ UNCHANGED <<tasks, attachments, notifications, deleted>>]_vars

\* An update with a title that is too long, addressed to an id that has no
\* task, ended with the validation error.
C15_Witness ==
    /\ last.op = "update"
    /\ last.id \notin DOMAIN tasks
    /\ DOMAIN last.body = {"title"}
    /\ last.body["title"] = <<MaxTitleLength + 1>>
    /\ last.outcome.kind = "validation_error"

\* C16: each request served through get_db runs in one transaction. When the
\* handler returned, its writes are committed together; when it raised, the
\* transaction is rolled back and the same exception reaches the caller; and
\* a session reads only committed rows, so what a rolled-back request wrote
\* is visible to no later session.
C16_TransactionPerRequest ==
    [][\A s \in SessionIds :
          /\ (sessions[s].phase = "returned" /\ sessions'[s].phase = "closed")
                => /\ tasks' = (IF sessions[s].tx = <<>> THEN tasks
                                ELSE Val(sessions[s].tx))
                   /\ sessions'[s].outcome.kind = "ok"
          /\ (sessions[s].phase = "raised" /\ sessions'[s].phase = "closed")
                => /\ UNCHANGED <<tasks, attachments, notifications, deleted>>
                   /\ sessions'[s].tx = <<>>
                   /\ sessions'[s].outcome = sessions[s].outcome
          /\ (sessions[s].pc = "select" /\ sessions'[s].pc = "flush")
                => sessions'[s].loaded = <<tasks[sessions[s].req.id]>>
          /\ sessions'[s].phase = sessions[s].phase
                => \/ tasks' = tasks
                   \/ \E o \in SessionIds \ {s} : sessions'[o] # sessions[o]
                   \/ last'.op = "create"]_vars

\* A handler raised after its session had written, and the request is over
\* with that exception, while no other request was in flight.
C16_Witness ==
    \E s \in SessionIds :
        /\ sessions[s].phase = "closed"
        /\ sessions[s].outcome = Fault
        /\ sessions[s].wrote
        /\ sessions[s].req.op = "update"
        /\ \A o \in SessionIds \ {s} : sessions[o].phase = "none"
        /\ tasks = sessions[s].base

\* C17: a request cancelled after get_db yielded its session and before the
\* handler finished is never committed: the committed store is what it was,
\* and nothing the session flushed is left in a transaction.
C17_CancelNeverCommits ==
    [][\A s \in SessionIds :
          (sessions[s].phase = "handler" /\ sessions'[s].outcome = Cancelled)
             => /\ UNCHANGED <<tasks, attachments, notifications, deleted>>
                /\ sessions'[s].phase = "closed"
                /\ sessions'[s].tx = <<>>]_vars

\* A request was cancelled after its session had written.
C17_Witness ==
    \E s \in SessionIds :
        /\ sessions[s].phase = "closed"
        /\ sessions[s].outcome = Cancelled
        /\ sessions[s].wrote

\* The tasks table after request `req` ran alone on `table`.
SerialRun(table, req) ==
    IF req.id \notin DOMAIN table THEN table
    ELSE IF req.op = "delete" THEN Drop(table, req.id)
    ELSE Put(table, req.id,
             FlushRow(table[req.id], ApplyUpdate(table[req.id], req.body), now))

\* C18: when two requests that mutate the same task (update/update or
\* update/delete), each on its own session, have both committed, the task is
\* in the state that running the two requests one after the other, in one of
\* the two orders, produces.
C18_Serializable ==
    \A a \in SessionIds : \A b \in SessionIds \ {a} :
        (/\ sessions[a].phase = "closed" /\ sessions[a].outcome.kind = "ok"
         /\ sessions[b].phase = "closed" /\ sessions[b].outcome.kind = "ok"
         /\ sessions[a].first /\ ~sessions[b].first
         /\ sessions[a].req.id = sessions[b].req.id
         /\ "update" \in {sessions[a].req.op, sessions[b].req.op})
        => LET base == sessions[a].base
               ra == sessions[a].req
               rb == sessions[b].req
           IN tasks \in {SerialRun(SerialRun(base, ra), rb),
                         SerialRun(SerialRun(base, rb), ra)}

\* What C19 names as needing migration.
ClaimedNeedsMigration ==
    \/ boot.url = "memory"
    \/ boot.url = "file" /\ ~boot.file
    \/ boot.url = "file" /\ ~boot.version_table
    \/ boot.url = "file" /\ boot.version # HeadRevision

\* C19: the startup check decides that migration is needed whenever the
\* database file does not exist, or the version table is absent, or the
\* stored version differs from the latest one; an in-memory database always
\* needs migration.
C19_MigratesWhenNeeded ==
    boot.migration = "not_needed" => ~ClaimedNeedsMigration

\* C20: get_db never yields a session while the startup upgrade is pending
\* or running.
C20_NoSessionBeforeUpgrade ==
    \A s \in SessionIds :
        sessions[s].phase = "handler" => sessions[s].at \notin {"pending", "running"}

\* C21: when an upgrade of the startup has raised, how the init call ends
\* depends on the mode only: with debug off the failure is logged as an error
\* and the call raises RuntimeError, with debug on it is logged as a warning
\* and the call returns.
C21_FailureOutcomeByMode ==
    (boot.log # "none" /\ boot.init \in {"raised", "returned"})
        => IF boot.debug
           THEN boot.log = "warning" /\ boot.init = "returned"
           ELSE boot.log = "error" /\ boot.init = "raised"

\* C22: with debug off, once an init call has raised because the migration
\* failed, get_db yields no session (no migration has succeeded while the
\* init call stays raised).
C22_NoSessionAfterFailedStartup ==
    [][\A s \in SessionIds :
          (boot.init = "raised" /\ sessions[s].phase = "none")
             => sessions'[s].phase # "handler"]_vars

\* C27: over any sequence of init_db / init_db_async, get_db and close_db
\* calls: get_db raises RuntimeError("Database not initialized") when no
\* init call was made since the start or the last close_db; from the end of
\* an init call until close_db, no call (an init call among them) makes a
\* new engine or runs the migrations again; and close_db without an engine
\* changes nothing and returns.
C27_LifecycleCalls ==
    [][/\ \A s \in SessionIds :
            (boot.init = "none" /\ sessions[s].phase = "none"
                                /\ sessions'[s].phase # "none")
               => /\ sessions'[s].phase = "closed"
                  /\ sessions'[s].outcome = NotInitialized
       /\ (boot.engine /\ boot.init # "awaiting" /\ boot'.call # "close_db")
             => boot' = [boot EXCEPT !.call = boot'.call, !.pool = boot'.pool]
       /\ (~boot.engine /\ boot.call # "close_db" /\ boot'.call = "close_db")
             => /\ boot' = [boot EXCEPT !.call = "close_db"]
                /\ UNCHANGED <<tasks, attachments, notifications, deleted,
                               sessions>>]_vars

\* get_db raised RuntimeError after close_db, and before that an init call
\* on an engine that was set had left the finished migration alone.
C27_Witness ==
    /\ boot.call = "close_db"
    /\ ~boot.engine
    /\ boot.version = HeadRevision
    /\ \E s \in SessionIds :
          /\ sessions[s].phase = "closed"
          /\ sessions[s].outcome = NotInitialized

\* C28: once the module is initialised, foreign keys are enforced on every
\* connection taken from the engine, the ones taken with engine.connect()
\* included: PRAGMA foreign_keys answers 1 there.
C28_ForeignKeysOnEveryConnection ==
    (boot.engine /\ boot.init = "returned") => boot.raw # "off"

\* C29: a deleted task never reappears. A deleted id is in no committed
\* tasks table; and when an update_task has loaded a task, has written
\* nothing, and the task is gone because a delete_task of another request
\* committed, no step gives that update a write or a normal return, and the
\* steps of its request leave the committed table as it is.
C29_DeletedNeverReappears ==
    /\ [](\A id \in deleted : id \notin DOMAIN tasks)
    /\ [][\A s \in SessionIds :
             (/\ sessions[s].req.op = "update"
              /\ sessions[s].phase = "handler"
              /\ sessions[s].loaded # None
              /\ ~sessions[s].wrote
              /\ sessions[s].req.id \in deleted)
             => /\ sessions'[s].phase \in {"handler", "raised", "closed"}
                /\ sessions'[s].tx = None
                /\ sessions'[s] # sessions[s] => tasks' = tasks]_vars

\* An update that had loaded the task ended with StaleDataError and was
\* rolled back, the delete of the other request having committed, and the
\* task is not in the table.
C29_Witness ==
    \E a \in SessionIds : \E b \in SessionIds \ {a} :
        /\ sessions[a].req.op = "update"
        /\ sessions[a].phase = "closed"
        /\ sessions[a].outcome = StaleDataError
        /\ sessions[b].req.op = "delete"
        /\ sessions[b].phase = "closed"
        /\ sessions[b].outcome = NoContent
        /\ sessions[b].req.id = sessions[a].req.id
        /\ sessions[a].req.id \notin DOMAIN tasks

\* C23: db upgrade to head on a database that is at head is a no-op: the
\* version marker, the schema and the rows are what they were, and the
\* command exits with code 0.
C23_UpgradeAtHeadIsNoOp ==
    [][(/\ boot'.cli # boot.cli
        /\ boot'.cli.cmd = "upgrade"
        /\ boot.file /\ boot.version_table /\ boot.version = HeadRevision)
       => /\ Database' = Database
          /\ boot'.cli.exit = 0]_vars

\* db upgrade was run on a database at head, and exited with code 0.
C23_Witness ==
    /\ boot.cli.cmd = "upgrade"
    /\ boot.cli.exit = 0
    /\ boot.cli.before = Some(Database)
    /\ boot.version = HeadRevision
    /\ boot.schema = InitialObjects

\* C24: upgrade applies each step atomically: in every state the version
\* marker names a revision only if everything the revision creates is in
\* the schema, and after a db upgrade that failed the schema and the marker
\* are what they were before it.
C24_StepsAtomic ==
    /\ boot.version = HeadRevision => InitialObjects \subseteq boot.schema
    /\ (boot.cli.cmd = "upgrade" /\ boot.cli.exit = 1)
          => /\ boot.schema = Val(boot.cli.before).schema
             /\ boot.version = Val(boot.cli.before).version

\* C25: a db downgrade by one step that succeeds on a database upgraded to
\* head leaves none of the tables and indexes of the initial revision, and
\* a version marker that does not name that revision.
C25_DowngradeUndoesInitial ==
    [][(/\ boot'.cli # boot.cli
        /\ boot'.cli.cmd = "downgrade"
        /\ boot'.cli.exit = 0)
       => /\ boot.version = HeadRevision
          /\ boot'.schema \cap InitialObjects = {}
          /\ boot'.version # HeadRevision
          /\ DOMAIN tasks' = {}]_vars

\* db downgrade was run on a database at head that held a task, and exited
\* with code 0.
C25_Witness ==
    /\ boot.cli.cmd = "downgrade"
    /\ boot.cli.exit = 0
    /\ Val(boot.cli.before).version = HeadRevision
    /\ Val(boot.cli.before).schema = InitialObjects
    /\ DOMAIN Val(boot.cli.before).tasks # {}
    /\ boot.schema = {}

\* C26: db reset and db restore delete or overwrite an existing database
\* file only when the prompt was confirmed or the command was forced, and
\* when the prompt is declined the file is what it was and the exit code is
\* 0.
C26_NoDestructionWithoutConsent ==
    [][(/\ boot'.cli # boot.cli
        /\ boot'.cli.cmd \in {"reset", "restore"}
        /\ boot.file)
       => /\ ~(boot'.cli.confirmed \/ boot'.cli.forced) => Database' = Database
          /\ (boot'.cli.asked /\ ~boot'.cli.confirmed)
                => Database' = Database /\ boot'.cli.exit = 0]_vars

\* The prompt of db reset was declined on a database that holds a task.
C26_Witness ==
    /\ boot.cli.cmd = "reset"
    /\ boot.cli.asked
    /\ ~boot.cli.confirmed
    /\ ~boot.cli.forced
    /\ boot.cli.exit = 0
    /\ boot.file
    /\ DOMAIN tasks # {}

\* C30: db restore is not atomic: once the prompt was confirmed, a restore
\* whose script fails to execute exits with code 1 and leaves nothing of
\* what the database file held.
C30_RestoreNotAtomic ==
    [][(/\ boot'.cli # boot.cli
        /\ boot'.cli.cmd = "restore"
        /\ boot'.cli.confirmed
        /\ boot'.cli.error \in {"connect", "script"})
       => /\ boot'.cli.exit = 1
          /\ Database' \in {NoDatabase, EmptyDatabase}]_vars

\* A confirmed db restore failed in its script on a database that held a
\* task, and the task is gone.
C30_Witness ==
    /\ boot.cli.cmd = "restore"
    /\ boot.cli.confirmed
    /\ boot.cli.error = "script"
    /\ boot.cli.exit = 1
    /\ DOMAIN Val(boot.cli.before).tasks # {}
    /\ Database = EmptyDatabase

====
